---- MODULE Spec2Model ----
(***************************************************************************)
(* Model of sky/utils/timeline.py: the process-wide event buffer _events,  *)
(* Event (begin/end, scoped use), FileLockEvent (acquire/release around an *)
(* external file lock) and the exit-time serialisation _save_timeline.     *)
(*                                                                         *)
(* Threads run Python code one bytecode at a time under the interpreter    *)
(* lock; the model splits every method at the points where it touches      *)
(* shared state (the buffer, the lock, the clock), so that every           *)
(* interleaving of those accesses is explored.                             *)
(***************************************************************************)
EXTENDS Integers, Sequences, FiniteSets, TLC

VARIABLES
    events,      \* _events: the buffer, a list of record dicts
    emitter,     \* history: emitter[i] is the thread whose append put events[i]
    now,         \* the wall clock read by time.time(), in 1/1000 microsecond
    pend,        \* pend[t]: the record a begin()/end() of t has built and not yet appended
    stack,       \* stack[t]: the frames of the calls thread t is inside
    raising,     \* raising[t]: an exception is propagating out of t's last frame
    budget,      \* calls the threads may still start
    issued,      \* history: number of begin()/end() calls started so far
    log,         \* history: log[t] lists the calls thread t started ("begin", "end",
                 \* "scope", "acquire", "release"), the errors raised in them
                 \* ("raise" by a body, "failed" by the lock) and those that
                 \* reached the caller of the outermost call ("raised")
    lockCounter, \* filelock: FileLock._lock_counter of FileLockEvent._lock
    lockHeld,    \* filelock: FileLock.is_locked of FileLockEvent._lock
    envPath,     \* os.environ['SKY_TIMELINE_FILE_PATH'] at module load (<<>> when unset)
    handlers,    \* the atexit registry: the file paths _save_timeline is registered with
    phase,       \* "running", "exited" (normal exit) or "killed"
    outFile,     \* the output file: <<>> when it does not exist, else <<its content>>
    nwrites,     \* history: number of times the output file was written
    exitErr,     \* an exit action raised
    holdEv,      \* FileLockEvent._hold_lock_event of the shared FileLockEvent
    horizon,     \* the last clock value the run observes
    holdCreator, \* history: the thread that constructed the shared FileLockEvent
    callables,   \* the closures event() and its _wrapper have returned so far
    trace        \* history: the applications of event() and the calls of the
                 \* decorated functions, with their arguments and outcomes

vars == <<events, emitter, now, pend, stack, raising, budget, issued, log,
          lockCounter, lockHeld, envPath, handlers, phase, outFile, nwrites, exitErr,
          holdEv, horizon, holdCreator, callables, trace>>

evVars == <<events, emitter>>
lockVars == <<lockCounter, lockHeld>>
exitVars == <<envPath, handlers, phase, outFile, nwrites, exitErr, holdEv, horizon,
              holdCreator>>
decoVars == <<callables, trace>>

(***************************************************************************)
(* Bounds                                                                  *)
(***************************************************************************)
NThreads == 2       \* threads of the process; thread 1 is the main thread
MaxCalls == 2       \* calls started in a run of the concurrent specification
MaxSeqCalls == 4    \* calls started in a run of the single-threaded lock specification
MaxExitCalls == 3   \* calls started before the process ends in the exit specification
MaxTicks == 1       \* clock ticks observed in a run
MaxWraps == 3       \* applications of event() and of the decorators it returns

Threads == 1..NThreads

(***************************************************************************)
(* Python values                                                           *)
(***************************************************************************)
\* Optional[str]: None is the empty sequence, a string s is <<s>>.
None == <<>>
Some(s) == <<s>>

\* dict.update / item assignment: keys of u override those of d.
DictUpdate(d, u) == u @@ d

\* os.getpid() of the recording process.
Pid == 4711

\* The clock value at the start of the run (time.time() * 10 ** 6, in 1/1000 us).
ClockStart == 1999

\* f'{x: .3f}': a space for the sign, the integer part, 3 decimals.
Pad3(k) ==
    IF k < 10 THEN "00" \o ToString(k)
    ELSE IF k < 100 THEN "0" \o ToString(k)
    ELSE ToString(k)

FormatTs(n) == " " \o ToString(n \div 1000) \o "." \o Pad3(n % 1000)

\* The clock values a run can observe, and float(ts) of a formatted timestamp.
ClockRange == ClockStart..(ClockStart + MaxTicks + 1)
TsValue(s) == CHOOSE n \in ClockRange : FormatTs(n) = s

\* time.time(): the values the next read may return.
ClockReads == {n \in {now, now + 1} : n <= horizon}

(***************************************************************************)
(* Event                                                                   *)
(***************************************************************************)
\* The (name, message) arguments Events are constructed with.
EventArgs == {[name |-> "a", message |-> None], [name |-> "b", message |-> Some("m")]}

\* Faulty variant: the thread id is that of the main thread, not of the
\* thread running the constructor.
EventInitMainThread(name, message, t) ==
    LET base == [name |-> name,
                 cat  |-> "event",
                 pid  |-> ToString(Pid),
                 tid  |-> ToString(1),
                 args |-> [message |-> message]]
    IN [name |-> name, message |-> message, event |-> base]

\* Event.__init__ run by thread t: the object's _name, _message and _event.
EventInit(name, message, t) ==
    LET base == [name |-> name,
                 cat  |-> "event",
                 pid  |-> ToString(Pid),
                 tid  |-> ToString(t),
                 args |-> [message |-> message]]
    IN [name    |-> name,
        message |-> message,
        event   |-> IF message # None
                    THEN DictUpdate(base, [args |-> [message |-> message]])
                    ELSE base]

\* The record begin()/end() builds: a copy of _event with ph and ts set.
EventRecord(e, ph, ts) ==
    LET copy == DictUpdate(e.event, [ph |-> ph, ts |-> FormatTs(ts)])
    IN IF e.message # None
       THEN DictUpdate(copy, [args |-> [message |-> e.message]])
       ELSE copy

\* Faulty variant of end(): the record is built without the args of the Event.
EndRecordNoArgs(e, ts) ==
    LET r == EventRecord(e, "E", ts)
    IN [k \in DOMAIN r \ {"args"} |-> r[k]]

BeginRecord(e, ts) == EventRecord(e, "B", ts)
EndRecord(e, ts) == EventRecord(e, "E", ts)

\* Faulty variants of the append: an unsynchronised read-modify-write that
\* writes the slot another append has just filled; an insertion at the front.
BufferAppendLost(buf, r) ==
    IF buf = <<>> THEN <<r>> ELSE [buf EXCEPT ![Len(buf)] = r]
BufferPrepend(buf, r) == <<r>> \o buf

\* Faulty variant: the record is inserted at its place in timestamp order.
BufferInsertByTs(buf, r) ==
    LET k == Cardinality({i \in 1..Len(buf) : TsValue(buf[i].ts) <= TsValue(r.ts)})
    IN SubSeq(buf, 1, k) \o <<r>> \o SubSeq(buf, k + 1, Len(buf))

\* _events.append(record)
BufferAppend(buf, r) == Append(buf, r)

\* Faulty variant: __exit__ returns a true value.
ExitSuppressesAlways == TRUE

\* Event.__exit__ returns None: the exception of the body is not suppressed.
ExitSuppresses == FALSE

\* Event objects kept by the application and shared between its threads:
\* constructed by the main thread, begun and ended by any thread.
SharedArgs == {[name |-> "s", message |-> None], [name |-> "u", message |-> Some("m")]}
SharedEvents == {EventInit(a.name, a.message, 1) : a \in SharedArgs}

(***************************************************************************)
(* Frames                                                                  *)
(***************************************************************************)
Frame(fn, pc, ev, was, exc) == [fn |-> fn, pc |-> pc, ev |-> ev, was |-> was, exc |-> exc]

Top(t) == stack[t][Len(stack[t])]
Pop(t) == SubSeq(stack[t], 1, Len(stack[t]) - 1)
Push(t, f) == Append(stack[t], f)
SetTop(t, f) == [stack[t] EXCEPT ![Len(stack[t])] = f]

InBody(t) == stack[t] # <<>> /\ Top(t).pc = "body"
Idle(t) == stack[t] = <<>> /\ pend[t] = <<>> /\ ~raising[t]

\* Thread t is at a point where its code may start a call.
CanCall(t) ==
    /\ phase = "running"
    /\ pend[t] = <<>>
    /\ ~raising[t]
    /\ budget > 0
    /\ stack[t] = <<>> \/ InBody(t)

CanStep(t) == phase = "running" /\ pend[t] = <<>>

Called(t, what) ==
    /\ budget' = budget - 1
    /\ log' = [log EXCEPT ![t] = Append(@, what)]

(***************************************************************************)
(* Event.begin / Event.end and the append to the buffer                    *)
(***************************************************************************)
\* t.begin() / t.end() on a shared Event: build the record (reading the clock).
CallBegin(t, e) ==
    /\ CanCall(t)
    /\ \E ts \in ClockReads :
        /\ now' = ts
        /\ pend' = [pend EXCEPT ![t] = <<BeginRecord(e, ts)>>]
    /\ issued' = issued + 1
    /\ Called(t, "begin")
    /\ UNCHANGED <<evVars, stack, raising, lockVars, exitVars, decoVars>>

CallEnd(t, e) ==
    /\ CanCall(t)
    /\ \E ts \in ClockReads :
        /\ now' = ts
        /\ pend' = [pend EXCEPT ![t] = <<EndRecord(e, ts)>>]
    /\ issued' = issued + 1
    /\ Called(t, "end")
    /\ UNCHANGED <<evVars, stack, raising, lockVars, exitVars, decoVars>>

\* The last statement of begin()/end(): _events.append(record).
DoAppend(t) ==
    /\ phase = "running"
    /\ pend[t] # <<>>
    /\ events' = BufferAppend(events, pend[t][1])
    /\ emitter' = Append(emitter, t)
    /\ pend' = [pend EXCEPT ![t] = <<>>]
    /\ UNCHANGED <<now, stack, raising, budget, issued, log, lockVars, exitVars, decoVars>>

(***************************************************************************)
(* Scoped use: with Event(name, message): body                             *)
(***************************************************************************)
\* Event(...) is constructed by t, then __enter__ calls begin().
EnterScope(t, a) ==
    /\ CanCall(t)
    /\ LET e == EventInit(a.name, a.message, t) IN
        /\ stack' = [stack EXCEPT ![t] = Push(t, Frame("scope", "body", <<e>>, FALSE, FALSE))]
        /\ \E ts \in ClockReads :
            /\ now' = ts
            /\ pend' = [pend EXCEPT ![t] = <<BeginRecord(e, ts)>>]
    /\ issued' = issued + 1
    /\ Called(t, "scope")
    /\ UNCHANGED <<evVars, raising, lockVars, exitVars, decoVars>>

\* The body ends (exc = FALSE), raises (exc = TRUE), or a call made in the body
\* raised (raising[t]): __exit__ runs and calls end().
LeaveBody(t, exc) ==
    /\ CanStep(t)
    /\ InBody(t)
    /\ Top(t).fn = "scope"
    /\ raising[t] => exc
    /\ stack' = [stack EXCEPT ![t] = SetTop(t, [Top(t) EXCEPT !.pc = "exit", !.exc = exc])]
    /\ \E ts \in ClockReads :
        /\ now' = ts
        /\ pend' = [pend EXCEPT ![t] = <<EndRecord(Top(t).ev[1], ts)>>]
    /\ issued' = issued + 1
    /\ raising' = [raising EXCEPT ![t] = FALSE]
    /\ log' = [log EXCEPT ![t] = IF exc /\ ~raising[t] THEN Append(@, "raise") ELSE @]
    /\ UNCHANGED <<evVars, budget, lockVars, exitVars, decoVars>>

\* __exit__ has returned: the with statement re-raises unless it was suppressed.
ScopeExit(t) ==
    /\ CanStep(t)
    /\ stack[t] # <<>>
    /\ Top(t).fn = "scope"
    /\ Top(t).pc = "exit"
    /\ stack' = [stack EXCEPT ![t] = Pop(t)]
    /\ raising' = [raising EXCEPT ![t] = Top(t).exc /\ ~ExitSuppresses]
    /\ UNCHANGED <<evVars, now, pend, budget, issued, log, lockVars, exitVars, decoVars>>

\* An exception reaches the code that made the outermost call, which handles it.
Catch(t) ==
    /\ CanStep(t)
    /\ stack[t] = <<>>
    /\ raising[t]
    /\ raising' = [raising EXCEPT ![t] = FALSE]
    /\ log' = [log EXCEPT ![t] = Append(@, "raised")]
    /\ UNCHANGED <<evVars, now, pend, stack, budget, issued, lockVars, exitVars, decoVars>>

(***************************************************************************)
(* The external lock: filelock.FileLock (reentrant through a counter)      *)
(***************************************************************************)
LockFile == "L"
AcquireName == "[FileLock.acquire]:" \o LockFile
HoldName == "[FileLock.hold]:" \o LockFile

\* FileLockEvent.__init__ run by thread c: the long-lived hold event.
FileLockEventInit(c) == EventInit(HoldName, None, c)

\* FileLock.acquire(): the counter and the held flag after a successful call.
LockAcquired(counter, held) == [counter |-> counter + 1, held |-> TRUE]

\* FileLock.release(): one level is released, the file at the outermost level.
LockReleased(counter, held) ==
    IF held
    THEN [counter |-> counter - 1, held |-> counter - 1 # 0]
    ELSE [counter |-> counter, held |-> held]

(***************************************************************************)
(* FileLockEvent.acquire / FileLockEvent.release                           *)
(***************************************************************************)
\* was_locked = self._lock.is_locked; with Event('[FileLock.acquire]:...'): begin()
StartAcquire(t) ==
    /\ CanCall(t)
    /\ LET e == EventInit(AcquireName, None, t) IN
        /\ stack' = [stack EXCEPT ![t] = Push(t, Frame("acquire", "lock", <<e>>, lockHeld, FALSE))]
        /\ \E ts \in ClockReads :
            /\ now' = ts
            /\ pend' = [pend EXCEPT ![t] = <<BeginRecord(e, ts)>>]
    /\ issued' = issued + 1
    /\ Called(t, "acquire")
    /\ UNCHANGED <<evVars, raising, lockVars, exitVars, decoVars>>

\* self._lock.acquire() returns (ok) or raises; either way __exit__ calls end().
\* A lock that is already held is re-entered and cannot fail.
LockAcquire(t, ok) ==
    /\ CanStep(t)
    /\ stack[t] # <<>>
    /\ Top(t).fn = "acquire"
    /\ Top(t).pc = "lock"
    /\ lockHeld => ok
    /\ LET after == LockAcquired(lockCounter, lockHeld) IN
        /\ lockCounter' = IF ok THEN after.counter ELSE lockCounter
        /\ lockHeld' = IF ok THEN after.held ELSE lockHeld
    /\ stack' = [stack EXCEPT ![t] = SetTop(t, [Top(t) EXCEPT !.pc = "check", !.exc = ~ok])]
    /\ \E ts \in ClockReads :
        /\ now' = ts
        /\ pend' = [pend EXCEPT ![t] = <<EndRecord(Top(t).ev[1], ts)>>]
    /\ issued' = issued + 1
    /\ log' = [log EXCEPT ![t] = IF ok THEN @ ELSE Append(@, "failed")]
    /\ UNCHANGED <<evVars, raising, budget, exitVars, decoVars>>

\* Faulty variants of the test: the first operand not negated; not tested.
HoldBeginsInverted(was, held) == was /\ held
HoldBeginsAlways(was, held) == held

\* The hold span begins on the transition not held -> held.
HoldBegins(was, held) == ~was /\ held

\* After the with statement: the exception propagates, or
\* if not was_locked and self._lock.is_locked: self._hold_lock_event.begin()
AcquireCheck(t) ==
    /\ CanStep(t)
    /\ stack[t] # <<>>
    /\ Top(t).fn = "acquire"
    /\ Top(t).pc = "check"
    /\ stack' = [stack EXCEPT ![t] = Pop(t)]
    /\ IF Top(t).exc /\ ~ExitSuppresses
       THEN /\ raising' = [raising EXCEPT ![t] = TRUE]
            /\ UNCHANGED <<now, pend, issued>>
       ELSE /\ raising' = raising
            /\ IF HoldBegins(Top(t).was, lockHeld)
               THEN /\ \E ts \in ClockReads :
                        /\ now' = ts
                        /\ pend' = [pend EXCEPT ![t] = <<BeginRecord(holdEv, ts)>>]
                    /\ issued' = issued + 1
               ELSE UNCHANGED <<now, pend, issued>>
    /\ UNCHANGED <<evVars, budget, log, lockVars, exitVars, decoVars>>

\* was_locked = self._lock.is_locked
StartRelease(t) ==
    /\ CanCall(t)
    /\ stack' = [stack EXCEPT ![t] = Push(t, Frame("release", "unlock", <<>>, lockHeld, FALSE))]
    /\ Called(t, "release")
    /\ UNCHANGED <<evVars, now, pend, raising, issued, lockVars, exitVars, decoVars>>

\* self._lock.release()
LockRelease(t) ==
    /\ CanStep(t)
    /\ stack[t] # <<>>
    /\ Top(t).fn = "release"
    /\ Top(t).pc = "unlock"
    /\ LET after == LockReleased(lockCounter, lockHeld) IN
        /\ lockCounter' = after.counter
        /\ lockHeld' = after.held
    /\ stack' = [stack EXCEPT ![t] = SetTop(t, [Top(t) EXCEPT !.pc = "check"])]
    /\ UNCHANGED <<evVars, now, pend, raising, budget, issued, log, exitVars, decoVars>>

\* Faulty variant: the second operand is not tested.
HoldEndsOnAnyRelease(was, held) == was

\* The hold span ends on the transition held -> not held.
HoldEnds(was, held) == was /\ ~held

\* if was_locked and not self._lock.is_locked: self._hold_lock_event.end()
ReleaseCheck(t) ==
    /\ CanStep(t)
    /\ stack[t] # <<>>
    /\ Top(t).fn = "release"
    /\ Top(t).pc = "check"
    /\ stack' = [stack EXCEPT ![t] = Pop(t)]
    /\ IF HoldEnds(Top(t).was, lockHeld)
       THEN /\ \E ts \in ClockReads :
                /\ now' = ts
                /\ pend' = [pend EXCEPT ![t] = <<EndRecord(holdEv, ts)>>]
            /\ issued' = issued + 1
       ELSE UNCHANGED <<now, pend, issued>>
    /\ UNCHANGED <<evVars, raising, budget, log, lockVars, exitVars, decoVars>>

(***************************************************************************)
(* Scoped use and decorator use of a FileLockEvent                         *)
(***************************************************************************)
\* with lock_event: body  ("with"),  lock_event(f)(...)  ("wrapper", whose
\* body is the call of f inside "with self").
LockScopes == {"with", "wrapper"}

\* __enter__ calls self.acquire(), which starts as in StartAcquire.
LockEnter(t, kind) ==
    /\ CanCall(t)
    /\ LET e == EventInit(AcquireName, None, t) IN
        /\ stack' = [stack EXCEPT ![t] =
               Push(t, Frame(kind, "enter", <<>>, lockHeld, FALSE))
               \o <<Frame("acquire", "lock", <<e>>, lockHeld, FALSE)>>]
        /\ \E ts \in ClockReads :
            /\ now' = ts
            /\ pend' = [pend EXCEPT ![t] = <<BeginRecord(e, ts)>>]
    /\ issued' = issued + 1
    /\ Called(t, "acquire")
    /\ UNCHANGED <<evVars, raising, lockVars, exitVars, decoVars>>

\* acquire() has returned or raised: the body starts, or the exception of
\* __enter__ leaves the with statement without running the body or __exit__.
LockEntered(t) ==
    /\ CanStep(t)
    /\ stack[t] # <<>>
    /\ Top(t).fn \in LockScopes
    /\ Top(t).pc = "enter"
    /\ IF raising[t]
       THEN /\ stack' = [stack EXCEPT ![t] = Pop(t)]
            /\ log' = log
       ELSE /\ stack' = [stack EXCEPT ![t] = SetTop(t, [Top(t) EXCEPT !.pc = "body"])]
            /\ log' = [log EXCEPT ![t] = Append(@, "body")]
    /\ UNCHANGED <<evVars, now, pend, raising, budget, issued, lockVars, exitVars, decoVars>>

\* Faulty variant: release() follows the body as a plain statement, and is
\* skipped when the body raises.
ExitCallsSkippedOnError(exc) == IF exc THEN <<>> ELSE <<"release">>

\* The calls made by FileLockEvent.__exit__, whether or not the body raised.
ExitCalls(exc) == <<"release">>

\* The body ends or raises: __exit__ runs and calls self.release(), which
\* starts as in StartRelease.
LockLeaveBody(t, exc) ==
    /\ CanStep(t)
    /\ InBody(t)
    /\ Top(t).fn \in LockScopes
    /\ raising[t] => exc
    /\ stack' = [stack EXCEPT ![t] =
           SetTop(t, [Top(t) EXCEPT !.pc = "exit", !.exc = exc])
           \o [i \in 1..Len(ExitCalls(exc)) |->
                 Frame(ExitCalls(exc)[i], "unlock", <<>>, lockHeld, FALSE)]]
    /\ raising' = [raising EXCEPT ![t] = FALSE]
    /\ log' = [log EXCEPT ![t] =
           (IF exc /\ ~raising[t] THEN Append(@, "raise") ELSE @) \o ExitCalls(exc)]
    /\ UNCHANGED <<evVars, now, pend, budget, issued, lockVars, exitVars, decoVars>>

\* __exit__ has returned None: the with statement re-raises the body's
\* exception, and the wrapper returns or raises with it.
LockExit(t) ==
    /\ CanStep(t)
    /\ stack[t] # <<>>
    /\ Top(t).fn \in LockScopes
    /\ Top(t).pc = "exit"
    /\ stack' = [stack EXCEPT ![t] = Pop(t)]
    /\ raising' = [raising EXCEPT ![t] = Top(t).exc]
    /\ UNCHANGED <<evVars, now, pend, budget, issued, log, lockVars, exitVars, decoVars>>

(***************************************************************************)
(* The decorator event(name_or_fn, message)                                *)
(***************************************************************************)
\* The values event() is applied to: a str, a function (with its __module__
\* and __qualname__), or a value that is neither.
StrValue(str) == [kind |-> "str", str |-> str]
FunctionValue(module, qualname) ==
    [kind |-> "function", module |-> module, qualname |-> qualname]
OtherValue(kind) == [kind |-> kind]

Functions == {FunctionValue(Some("pkg.mod"), "Foo.bar"),
              FunctionValue(Some(""), "g"),
              FunctionValue(None, "h")}
\* The applications event(v, message=m) of the run.
DecoratorArgs ==
    {<<StrValue("n"), Some("m")>>,
     <<FunctionValue(Some("pkg.mod"), "Foo.bar"), None>>,
     <<FunctionValue(Some(""), "g"), Some("m")>>,
     <<FunctionValue(None, "h"), None>>,
     <<OtherValue("class"), None>>,
     <<OtherValue("builtin"), Some("m")>>}
CallArgs == {<<>>, <<"x">>}
RetValues == {None, Some("r")}

IsInstanceStr(v) == v.kind = "str"

\* Faulty variant: any callable is accepted.
IsFunctionCallable(v) == v.kind \in {"function", "class", "builtin"}

\* inspect.isfunction
IsFunction(v) == v.kind = "function"

\* Faulty variant: the module name is left out.
FullNameUnqualified(f) == f.qualname

\* full_name of _record: module_name is '' or None for a function without one.
FullName(f) ==
    IF f.module # None /\ f.module[1] # ""
    THEN f.module[1] \o "." \o f.qualname
    ELSE f.qualname

\* The closures: _wrapper of event('name'), and _record of either form.
WrapperClosure(name, message) == [fn |-> "_wrapper", name |-> name, message |-> message]
NamedRecord(name, message, f) ==
    [fn |-> "_record", form |-> "named", name |-> name, message |-> message, f |-> f]
DirectRecord(message, f) ==
    [fn |-> "_record", form |-> "direct", message |-> message, f |-> f]

\* Thread t is outside any call, where its code may apply a decorator.
CanWrap(t) ==
    /\ phase = "running"
    /\ Idle(t)
    /\ Len(SelectSeq(trace, LAMBDA x : x.op = "wrap")) < MaxWraps

\* event(v, message=m): the closure it returns (made), or the ValueError.
EventReturn(v, m) ==
    IF IsInstanceStr(v) THEN [made |-> {WrapperClosure(v.str, m)}, err |-> FALSE]
    ELSE IF ~IsFunction(v) THEN [made |-> {}, err |-> TRUE]
    ELSE [made |-> {DirectRecord(m, v)}, err |-> FALSE]

\* _wrapper(f) of the closure w returned by event('name')
WrapperReturn(w, f) == [made |-> {NamedRecord(w.name, w.message, f)}, err |-> FALSE]

Decorate(t, v, m) ==
    /\ CanWrap(t)
    /\ LET res == EventReturn(v, m) IN
          /\ callables' = callables \cup res.made
          /\ raising' = [raising EXCEPT ![t] = res.err]
          /\ log' = [log EXCEPT ![t] = IF res.err THEN Append(@, "ValueError") ELSE @]
          /\ trace' = Append(trace, [op |-> "wrap", t |-> t, v |-> v,
                                     made |-> res.made, err |-> res.err])
    /\ UNCHANGED <<evVars, now, pend, stack, budget, issued, lockVars, exitVars>>

\* _wrapper(f), the decorator returned by event('name')
ApplyWrapper(t, w, f) ==
    /\ CanWrap(t)
    /\ w \in callables
    /\ w.fn = "_wrapper"
    /\ LET res == WrapperReturn(w, f) IN
        /\ callables' = callables \cup res.made
        /\ trace' = Append(trace, [op |-> "wrap", t |-> t, v |-> f,
                                   made |-> res.made, err |-> res.err])
    /\ UNCHANGED <<evVars, now, pend, stack, raising, budget, issued, log, lockVars, exitVars>>

\* The frame of a call of _record: the Event, the closure, the arguments it was
\* called with, the arguments it passes to f, and what f did.
RecordFrame(e, c, args) ==
    [fn |-> "record", pc |-> "call", ev |-> <<e>>, was |-> FALSE, exc |-> FALSE,
     callee |-> c, given |-> args, args |-> args, ret |-> <<>>]

\* c(*args): _record constructs the Event and __enter__ calls begin().
CallRecord(t, c, args) ==
    /\ CanCall(t)
    /\ c \in callables
    /\ c.fn = "_record"
    /\ LET name == IF c.form = "named" THEN c.name ELSE FullName(c.f)
           e == EventInit(name, c.message, t)
       IN /\ stack' = [stack EXCEPT ![t] = Push(t, RecordFrame(e, c, args))]
          /\ \E ts \in ClockReads :
              /\ now' = ts
              /\ pend' = [pend EXCEPT ![t] = <<BeginRecord(e, ts)>>]
    /\ issued' = issued + 1
    /\ Called(t, "call")
    /\ UNCHANGED <<evVars, raising, lockVars, exitVars, callables, trace>>

\* begin() has returned: f(*args, **kwargs) starts.
FnStart(t) ==
    /\ CanStep(t)
    /\ stack[t] # <<>>
    /\ Top(t).fn = "record"
    /\ Top(t).pc = "call"
    /\ stack' = [stack EXCEPT ![t] = SetTop(t, [Top(t) EXCEPT !.pc = "body"])]
    /\ trace' = Append(trace, [op |-> "start", t |-> t, callee |-> Top(t).callee,
                               given |-> Top(t).given, got |-> Top(t).args,
                               len |-> Len(events)])
    /\ UNCHANGED <<evVars, now, pend, raising, budget, issued, log, lockVars, exitVars,
                   callables>>

\* What f does: it returns a value or raises.
Returns(r) == [kind |-> "return", value |-> r]
Raises == [kind |-> "raise"]
FnOutcomes == {Returns(r) : r \in RetValues} \cup {Raises}

\* Faulty variant: the value of f is dropped.
WrapperResultNone(out) == Returns(None)

\* return f(*args, **kwargs)
WrapperResult(out) == out

\* f returns or raises, or a call made by f raised: __exit__ calls end().
FnLeave(t, out) ==
    /\ CanStep(t)
    /\ InBody(t)
    /\ Top(t).fn = "record"
    /\ raising[t] => out = Raises
    /\ stack' = [stack EXCEPT ![t] =
           SetTop(t, [Top(t) EXCEPT !.pc = "exit", !.exc = (out = Raises), !.ret = <<out>>])]
    /\ \E ts \in ClockReads :
        /\ now' = ts
        /\ pend' = [pend EXCEPT ![t] = <<EndRecord(Top(t).ev[1], ts)>>]
    /\ issued' = issued + 1
    /\ raising' = [raising EXCEPT ![t] = FALSE]
    /\ log' = [log EXCEPT ![t] = IF out = Raises /\ ~raising[t] THEN Append(@, "raise") ELSE @]
    /\ UNCHANGED <<evVars, budget, lockVars, exitVars, decoVars>>

\* __exit__ has returned: _record returns the value of f, or the error of f
\* propagates.
RecordExit(t) ==
    /\ CanStep(t)
    /\ stack[t] # <<>>
    /\ Top(t).fn = "record"
    /\ Top(t).pc = "exit"
    /\ stack' = [stack EXCEPT ![t] = Pop(t)]
    /\ LET out == IF ~Top(t).exc THEN WrapperResult(Top(t).ret[1])
                  ELSE IF ExitSuppresses THEN Returns(None)
                  ELSE Raises
       IN /\ raising' = [raising EXCEPT ![t] = out = Raises]
          /\ trace' = Append(trace, [op |-> "done", t |-> t, callee |-> Top(t).callee,
                                     fout |-> Top(t).ret[1], out |-> out,
                                     len |-> Len(events)])
    /\ UNCHANGED <<evVars, now, pend, budget, issued, log, lockVars, exitVars, callables>>

(***************************************************************************)
(* Paths, JSON and _save_timeline                                          *)
(***************************************************************************)
\* A path is the sequence of its characters.
PathA == <<"/", "d", "/", "t">>
PathB == <<"t">>
\* os.environ.get('SKY_TIMELINE_FILE_PATH'): unset, empty, or a path.
EnvValues == {None, Some(<<>>), Some(PathA), Some(PathB)}

\* Truth value of os.environ.get(...): None and '' are false.
Truthy(v) == v # None /\ v[1] # <<>>

\* str.rfind('/') + 1
LastSlash(p) ==
    LET idx == {i \in 1..Len(p) : p[i] = "/"}
    IN IF idx = {} THEN 0 ELSE CHOOSE i \in idx : \A j \in idx : j <= i

RECURSIVE RStripSlash(_)
RStripSlash(p) ==
    IF p # <<>> /\ p[Len(p)] = "/" THEN RStripSlash(SubSeq(p, 1, Len(p) - 1)) ELSE p

\* os.path.dirname (posixpath)
DirName(p) ==
    LET head == SubSeq(p, 1, LastSlash(p))
    IN IF head # <<>> /\ \E i \in 1..Len(head) : head[i] # "/"
       THEN RStripSlash(head)
       ELSE head

\* os.makedirs(d, exist_ok=True) raises FileNotFoundError for the empty path.
MakeDirsRaises(d) == d = <<>>

\* json.dump of a str, of an Optional[str], of a path string, of a record.
JsonStr(s) == "\"" \o s \o "\""
JsonOpt(m) == IF m = None THEN "null" ELSE JsonStr(m[1])
JsonPath(p) == <<"\"">> \o p \o <<"\"">>
JsonRecord(r) ==
    [k \in DOMAIN r |->
        IF k = "args" THEN [message |-> JsonOpt(r.args.message)] ELSE JsonStr(r[k])]

\* Faulty variant: log_dir is the output path itself, not its directory.
TimelineJsonWholePath(buf, p) ==
    [traceEvents     |-> [i \in 1..Len(buf) |-> JsonRecord(buf[i])],
     displayTimeUnit |-> JsonStr("ms"),
     otherData       |-> [log_dir |-> JsonPath(p)]]

\* The document _save_timeline dumps for the buffer buf and the path p.
TimelineJson(buf, p) ==
    [traceEvents     |-> [i \in 1..Len(buf) |-> JsonRecord(buf[i])],
     displayTimeUnit |-> JsonStr("ms"),
     otherData       |-> [log_dir |-> JsonPath(DirName(p))]]

\* if os.environ.get(...): atexit.register(_save_timeline, os.environ[...])
RegisterAtExit(env) == IF Truthy(env) THEN <<env[1]>> ELSE <<>>

\* The exit actions run in turn; fs is the output file, the count of writes and
\* whether an action raised. _save_timeline(p) raises before writing when
\* makedirs does.
RECURSIVE RunExitActions(_, _, _)
RunExitActions(hs, buf, fs) ==
    IF hs = <<>> THEN fs
    ELSE LET p == Head(hs)
             after == IF MakeDirsRaises(DirName(p))
                      THEN [fs EXCEPT !.err = TRUE]
                      ELSE [fs EXCEPT !.file = <<TimelineJson(buf, p)>>, !.n = @ + 1]
         IN RunExitActions(Tail(hs), buf, after)

\* Normal interpreter exit, started by the main thread outside any call.
Exit ==
    /\ phase = "running"
    /\ Idle(1)
    /\ phase' = "exited"
    /\ LET fs == RunExitActions(handlers, events, [file |-> outFile, n |-> nwrites, err |-> exitErr]) IN
        /\ outFile' = fs.file
        /\ nwrites' = fs.n
        /\ exitErr' = fs.err
    /\ UNCHANGED <<evVars, now, pend, stack, raising, budget, issued, log, lockVars,
                   envPath, handlers, holdEv, horizon, holdCreator, decoVars>>

\* Abnormal termination (signal, crash): no exit action runs.
Kill ==
    /\ phase = "running"
    /\ phase' = "killed"
    /\ UNCHANGED <<evVars, now, pend, stack, raising, budget, issued, log, lockVars,
                   envPath, handlers, outFile, nwrites, exitErr, holdEv, horizon,
                   holdCreator, decoVars>>

(***************************************************************************)
(* Specifications                                                          *)
(***************************************************************************)
\* The state after module load and the construction of the FileLockEvent by a
\* thread of creators, with calls calls to come, the clock advancing ticks times
\* and the environment one of envs.
InitBase(calls, ticks, envs, creators) ==
    /\ events = <<>>
    /\ emitter = <<>>
    /\ now = ClockStart
    /\ horizon = ClockStart + ticks
    /\ pend = [t \in Threads |-> <<>>]
    /\ stack = [t \in Threads |-> <<>>]
    /\ raising = [t \in Threads |-> FALSE]
    /\ budget = calls
    /\ issued = 0
    /\ log = [t \in Threads |-> <<>>]
    /\ lockCounter = 0
    /\ lockHeld = FALSE
    /\ envPath \in envs
    /\ handlers = RegisterAtExit(envPath)
    /\ phase = "running"
    /\ outFile = <<>>
    /\ nwrites = 0
    /\ exitErr = FALSE
    /\ holdCreator \in creators
    /\ holdEv = FileLockEventInit(holdCreator)
    /\ trace = <<>>

\* No decorator has been applied yet.
InitWith(calls, ticks, envs, creators) ==
    /\ InitBase(calls, ticks, envs, creators)
    /\ callables = {}

\* The decorated functions of the loaded modules: every application of
\* DecoratorArgs that returned, and the decorator event('name') applied to a
\* function.
LoadedCallables ==
    LET first == UNION {EventReturn(a[1], a[2]).made : a \in DecoratorArgs}
        named == UNION {WrapperReturn(w, f).made :
                          w \in {c \in first : c.fn = "_wrapper"},
                          f \in {FunctionValue(Some("pkg.mod"), "Foo.bar")}}
    IN first \cup named

EventStep(t) ==
    \/ \E e \in SharedEvents : CallBegin(t, e)
    \/ \E e \in SharedEvents : CallEnd(t, e)
    \/ \E a \in EventArgs : EnterScope(t, a)
    \/ \E exc \in BOOLEAN : LeaveBody(t, exc)
    \/ ScopeExit(t)

LockStep(t) ==
    \/ StartAcquire(t)
    \/ \E ok \in BOOLEAN : LockAcquire(t, ok)
    \/ AcquireCheck(t)
    \/ StartRelease(t)
    \/ LockRelease(t)
    \/ ReleaseCheck(t)

CommonStep(t) ==
    \/ DoAppend(t)
    \/ Catch(t)

\* Spec: every thread uses Events and the FileLockEvent concurrently, within
\* one tick of the clock.
Init == InitWith(MaxCalls, 0, {None}, {1})
Next ==
    \/ \E t \in Threads : EventStep(t)
    \/ \E t \in Threads : LockStep(t)
    \/ \E t \in Threads : CommonStep(t)
Spec == Init /\ [][Next]_vars

\* SpecClock: every thread calls begin() and end() of shared Events while the
\* clock advances.
InitClock == InitWith(MaxCalls, MaxTicks, {None}, {1})
NextClock ==
    \/ \E t \in Threads, e \in SharedEvents : CallBegin(t, e)
    \/ \E t \in Threads, e \in SharedEvents : CallEnd(t, e)
    \/ \E t \in Threads : DoAppend(t)
SpecClock == InitClock /\ [][NextClock]_vars

\* SpecTid: every thread calls begin() and end() of the shared Events and uses
\* the FileLockEvent, which any thread may have constructed.
InitTid == InitWith(MaxCalls, 0, {None}, Threads)
NextTid ==
    \/ \E t \in Threads, e \in SharedEvents : CallBegin(t, e)
    \/ \E t \in Threads, e \in SharedEvents : CallEnd(t, e)
    \/ \E t \in Threads : LockStep(t)
    \/ \E t \in Threads : CommonStep(t)
SpecTid == InitTid /\ [][NextTid]_vars

\* SpecWith: the main thread uses the FileLockEvent only through the with
\* statement and the decorator, nested and with bodies that raise.
LockScopeStep(t) ==
    \/ \E kind \in LockScopes : LockEnter(t, kind)
    \/ \E ok \in BOOLEAN : LockAcquire(t, ok)
    \/ AcquireCheck(t)
    \/ LockEntered(t)
    \/ \E exc \in BOOLEAN : LockLeaveBody(t, exc)
    \/ LockRelease(t)
    \/ ReleaseCheck(t)
    \/ LockExit(t)

InitScoped == InitWith(MaxExitCalls, MaxTicks, {None}, {1})
NextWith == LockScopeStep(1) \/ CommonStep(1)
SpecWith == InitScoped /\ [][NextWith]_vars

\* SpecWrap: the main thread applies event() and the decorators it returns.
WrapStep(t) ==
    \/ \E a \in DecoratorArgs : Decorate(t, a[1], a[2])
    \/ \E w \in callables, f \in Functions : ApplyWrapper(t, w, f)

NextWrap == WrapStep(1) \/ Catch(1)
SpecWrap == Init /\ [][NextWrap]_vars

\* SpecDeco: the main thread calls the decorated functions, which may call
\* decorated functions themselves.
DecoStep(t) ==
    \/ \E c \in callables, args \in CallArgs : CallRecord(t, c, args)
    \/ FnStart(t)
    \/ \E out \in FnOutcomes : FnLeave(t, out)
    \/ RecordExit(t)

InitDeco == InitBase(MaxCalls, 0, {None}, {1}) /\ callables = LoadedCallables
NextDeco == DecoStep(1) \/ CommonStep(1)
SpecDeco == InitDeco /\ [][NextDeco]_vars

\* SpecNest: Events are used only through the with statement, by every
\* thread, and through the decorated functions, called without arguments by
\* the main thread, nested in any way.
ScopeStep(t) ==
    \/ \E a \in EventArgs : EnterScope(t, a)
    \/ \E exc \in BOOLEAN : LeaveBody(t, exc)
    \/ ScopeExit(t)

\* The two decorated forms of one function.
NestCallables == {c \in LoadedCallables : c.fn = "_record" /\ c.f.module = Some("pkg.mod")}

InitNest == InitBase(MaxCalls, 0, {None}, {1}) /\ callables = NestCallables
NextNest ==
    \/ \E t \in Threads : ScopeStep(t)
    \/ \E c \in callables : CallRecord(1, c, <<>>)
    \/ FnStart(1)
    \/ \E out \in FnOutcomes : FnLeave(1, out)
    \/ RecordExit(1)
    \/ \E t \in Threads : CommonStep(t)
SpecNest == InitNest /\ [][NextNest]_vars

\* SpecLock: the main thread alone uses the FileLockEvent.
InitLock == InitWith(MaxSeqCalls, MaxTicks, {None}, Threads)
NextLock ==
    \/ LockStep(1)
    \/ CommonStep(1)
SpecLock == InitLock /\ [][NextLock]_vars

\* SpecExit: the main thread uses Events, then the process exits or is killed.
InitExit == InitWith(MaxExitCalls, 0, EnvValues, {1})
NextExit ==
    \/ EventStep(1)
    \/ CommonStep(1)
    \/ Exit
    \/ Kill
SpecExit == InitExit /\ [][NextExit]_vars

(***************************************************************************)
(* Properties                                                              *)
(***************************************************************************)
IsPrefix(a, b) == Len(a) <= Len(b) /\ SubSeq(b, 1, Len(a)) = a

\* Records thread t has built and not yet appended (0 or 1).
Pending(t) == Len(pend[t])
PendingAll == Cardinality({t \in Threads : pend[t] # <<>>})

\* Number of positions of the sequence q that satisfy Test.
Count(q, Test(_)) == Cardinality({i \in 1..Len(q) : Test(q[i])})

\* Records with name n and phase ph that thread t has appended, and has built.
Emitted(t, n, ph) ==
    Cardinality({i \in 1..Len(events) :
        emitter[i] = t /\ events[i].name = n /\ events[i].ph = ph})
Built(t, n, ph) ==
    Emitted(t, n, ph)
    + Cardinality({i \in 1..Len(pend[t]) : pend[t][i].name = n /\ pend[t][i].ph = ph})

\* C1: when every begin()/end() call issued by the threads has completed, the
\* buffer holds exactly one record per call: none is lost, none is duplicated.
C1_BufferLengthIsCallCount ==
    (\A t \in Threads : pend[t] = <<>>) =>
        /\ Len(events) = issued
        /\ Len(emitter) = issued

\* Both threads have appended, and three calls have completed.
C1_Witness ==
    /\ \A t \in Threads : pend[t] = <<>>
    /\ issued >= 3
    /\ \E i, j \in 1..Len(emitter) : emitter[i] # emitter[j]

\* C8: the buffer is append-only: every step of every thread leaves the earlier
\* contents of the buffer as a prefix of the new contents.
C8_BufferAppendOnly == [][IsPrefix(events, events')]_vars

\* The buffer holds records of a scoped Event, of the lock and of its hold span.
C8_Witness ==
    /\ Len(events) >= 3
    /\ \E i \in 1..Len(events) : events[i].name = HoldName
    /\ \E i \in 1..Len(events) : events[i].name = AcquireName

\* Names of the Events used through with statements.
ScopeNames == {a.name : a \in EventArgs}

\* Scope frames of thread t for the name n whose body has not been left.
OpenScopes(t, n) ==
    Cardinality({k \in 1..Len(stack[t]) :
        /\ stack[t][k].fn = "scope"
        /\ stack[t][k].pc = "body"
        /\ stack[t][k].ev[1].name = n})

\* Errors raised in thread t, those handled by its outermost caller, and
\* whether one is on its way out of a call.
ErrorsRaised(t) == Count(log[t], LAMBDA x : x \in {"raise", "failed"})
ErrorsCaught(t) == Count(log[t], LAMBDA x : x = "raised")
ErrorInFlight(t) == raising[t] \/ \E k \in 1..Len(stack[t]) : stack[t][k].exc

\* C5: a with Event(...) block appends a Begin record on entry and an End record
\* on every exit path of its body: for every thread and name, each Begin of a
\* scope whose body has been left (normally or by an error) is matched by an End
\* that follows it; and the error of a body is never swallowed: it is still
\* propagating, after the End record, until the outermost caller receives it.
C5_ScopedEventAlwaysEnds ==
    \A t \in Threads :
        /\ \A n \in ScopeNames :
            /\ Built(t, n, "B") = Built(t, n, "E") + OpenScopes(t, n)
            /\ \A k \in 1..Len(events) :
                (emitter[k] = t /\ events[k].name = n /\ events[k].ph = "E") =>
                    \E j \in 1..(k - 1) :
                        emitter[j] = t /\ events[j].name = n /\ events[j].ph = "B"
        /\ ErrorsRaised(t) = ErrorsCaught(t) + (IF ErrorInFlight(t) THEN 1 ELSE 0)
        /\ raising[t] => pend[t] = <<>>

\* A body has raised, its End record is in the buffer and the caller got the error.
C5_Witness ==
    \E t \in Threads :
        /\ Idle(t)
        /\ log[t] = <<"scope", "raise", "raised">>
        /\ \E n \in ScopeNames : Emitted(t, n, "B") = 1 /\ Emitted(t, n, "E") = 1

\* The value of key k of the dict r, if it has one.
Field(r, k) == IF k \in DOMAIN r THEN <<r[k]>> ELSE <<>>

\* C9: the records of a begin() and a later end() of one Event, called by one
\* thread, agree on name, cat, pid, tid and args, have phase B then E, and the
\* timestamp of the End record is not smaller than that of the Begin record.
C9_BeginEndRecordsAgree ==
    \A i, j \in 1..Len(events) :
        (/\ i < j
         /\ emitter[i] = emitter[j]
         /\ events[i].name = events[j].name
         /\ events[i].ph = "B"
         /\ events[j].ph = "E") =>
            /\ \A k \in {"name", "cat", "pid", "tid", "args"} :
                Field(events[i], k) = Field(events[j], k)
            /\ DOMAIN events[i] = DOMAIN events[j]
            /\ TsValue(events[j].ts) >= TsValue(events[i].ts)

\* A begin() and a later end() of one Event by one thread, the clock having
\* advanced from 1.999 to 2.000 in between.
C9_Witness ==
    \E i, j \in 1..Len(events) :
        /\ i < j
        /\ emitter[i] = emitter[j]
        /\ events[i].name = events[j].name
        /\ events[i].ph = "B" /\ events[i].ts = " 1.999"
        /\ events[j].ph = "E" /\ events[j].ts = " 2.000"

\* C10: a record has an args field only when its Event was given a message:
\* the records of an Event constructed without a message have no args.
C10_NoArgsWithoutMessage ==
    \A i \in 1..Len(events) :
        "args" \in DOMAIN events[i] => events[i].args.message # None

(***************************************************************************)
(* FileLockEvent, used by the main thread alone (SpecLock)                 *)
(***************************************************************************)
\* The buffer as the list of (name, phase) of its records.
Shape == [i \in 1..Len(events) |-> <<events[i].name, events[i].ph>>]
AcqB == <<AcquireName, "B">>
AcqE == <<AcquireName, "E">>
HoldB == <<HoldName, "B">>
HoldE == <<HoldName, "E">>

\* No record of the hold span with phase ph is in the buffer or about to be.
NoHold(ph) ==
    /\ \A i \in 1..Len(events) : <<events[i].name, events[i].ph>> # <<HoldName, ph>>
    /\ \A t \in Threads : \A i \in 1..Len(pend[t]) :
        <<pend[t][i].name, pend[t][i].ph>> # <<HoldName, ph>>

\* The main thread is inside acquire()/release(), about to call the external lock.
AtLockCall(pc) == stack[1] # <<>> /\ pend[1] = <<>> /\ Top(1).pc = pc

\* C2: on a lock that is not held, one acquire() and one release() append
\* exactly [FileLock.acquire] Begin, [FileLock.acquire] End, [FileLock.hold]
\* Begin, [FileLock.hold] End, in this order; the hold Begin is not appended
\* before the external acquire has returned, nor the hold End before the
\* external release has.
C2_AcquireReleaseCycle ==
    /\ (log[1] = <<"acquire">> /\ AtLockCall("lock")) =>
            Shape = <<AcqB>> /\ ~lockHeld
    /\ (log[1] = <<"acquire">> /\ Idle(1)) =>
            Shape = <<AcqB, AcqE, HoldB>> /\ lockHeld
    /\ (log[1] = <<"acquire", "release">> /\ AtLockCall("unlock")) =>
            Shape = <<AcqB, AcqE, HoldB>> /\ lockHeld
    /\ (log[1] = <<"acquire", "release">> /\ Idle(1)) =>
            Shape = <<AcqB, AcqE, HoldB, HoldE>> /\ ~lockHeld
    /\ (Len(log[1]) <= 2 /\ log[1] # <<"acquire", "release">>) => NoHold("E")

\* One acquire() and one release() have completed.
C2_Witness ==
    /\ log[1] = <<"acquire", "release">>
    /\ Idle(1)
    /\ Len(events) = 4

\* The list of n copies of x.
Rep(x, n) == [i \in 1..n |-> x]

RECURSIVE Flatten(_)
Flatten(qs) == IF qs = <<>> THEN <<>> ELSE Head(qs) \o Flatten(Tail(qs))

\* C3: k >= 2 nested acquire() calls followed by m <= k release() calls append
\* one [FileLock.acquire] pair per acquire() and a single [FileLock.hold] Begin,
\* after the first pair; the [FileLock.hold] End is appended by the k-th
\* release() and by no earlier one.
C3_ReentrantAcquire ==
    \A k \in 2..(MaxSeqCalls + 1) : \A m \in 0..k :
        (Idle(1) /\ log[1] = Rep("acquire", k) \o Rep("release", m)) =>
            /\ Shape = <<AcqB, AcqE, HoldB>>
                       \o Flatten(Rep(<<AcqB, AcqE>>, k - 1))
                       \o (IF m = k THEN <<HoldE>> ELSE <<>>)
            /\ lockCounter = k - m
            /\ lockHeld = (m < k)

\* Two nested acquires and their two releases have completed.
C3_Witness ==
    /\ Idle(1)
    /\ log[1] = <<"acquire", "acquire", "release", "release">>
    /\ Len(events) = 6

\* Every acquire() of the log failed.
AllAcquiresFailed(L) ==
    \A i \in 1..Len(L) : L[i] = "acquire" => (i < Len(L) /\ L[i + 1] = "failed")

\* C4: each acquire() appends one [FileLock.acquire] Begin and, once the
\* external acquire has returned or failed, one End after it, so a failed
\* acquire is not retried and its span is closed; a failure is never swallowed:
\* it propagates until the caller receives it; and while every acquire has
\* failed no [FileLock.hold] record is appended and the lock is not held.
C4_FailedAcquire ==
    LET L == log[1]
        nAcq == Count(L, LAMBDA x : x = "acquire")
        atLock == stack[1] # <<>> /\ Top(1).fn = "acquire" /\ Top(1).pc = "lock"
    IN /\ Built(1, AcquireName, "B") = nAcq
       /\ Built(1, AcquireName, "E") = nAcq - (IF atLock THEN 1 ELSE 0)
       /\ \A k \in 1..Len(events) :
            Cardinality({i \in 1..k : Shape[i] = AcqE})
                <= Cardinality({i \in 1..k : Shape[i] = AcqB})
       /\ ErrorsRaised(1) = ErrorsCaught(1) + (IF ErrorInFlight(1) THEN 1 ELSE 0)
       /\ AllAcquiresFailed(L) =>
            NoHold("B") /\ NoHold("E") /\ lockCounter = 0 /\ ~lockHeld

\* An acquire() has failed and its caller has received the failure.
C4_Witness ==
    /\ Idle(1)
    /\ log[1] = <<"acquire", "failed", "raised">>
    /\ Shape = <<AcqB, AcqE>>

(***************************************************************************)
(* Exit (SpecExit)                                                         *)
(***************************************************************************)
\* An output path was configured in the environment at module load.
PathConfigured == envPath # None /\ envPath # Some(<<>>)

\* C6: the buffer is written to the output file exactly once, at normal exit,
\* if and only if an output path was configured; without one no exit action is
\* registered, nothing is written and no error is raised.
C6_WrittenOnceIffConfigured ==
    /\ nwrites <= 1
    /\ phase = "exited" => ((nwrites = 1) = PathConfigured)
    /\ phase = "exited" => ((outFile # <<>>) = PathConfigured)
    /\ phase # "exited" => (nwrites = 0 /\ outFile = <<>>)
    /\ ~PathConfigured => (handlers = <<>> /\ ~exitErr)

\* C7: the document written at exit has as traceEvents the records of the
\* buffer, all of them and in buffer order, displayTimeUnit "ms", and as
\* otherData.log_dir the parent directory of the configured path.
C7_WrittenDocument ==
    outFile # <<>> =>
        LET doc == outFile[1] IN
        /\ DOMAIN doc = {"traceEvents", "displayTimeUnit", "otherData"}
        /\ Len(doc.traceEvents) = Len(events)
        /\ \A i \in 1..Len(events) :
            /\ DOMAIN doc.traceEvents[i] = DOMAIN events[i]
            /\ \A k \in {"name", "cat", "pid", "tid", "ph", "ts"} :
                doc.traceEvents[i][k] = "\"" \o events[i][k] \o "\""
            /\ doc.traceEvents[i].args.message =
                IF events[i].args.message = None
                THEN "null"
                ELSE "\"" \o events[i].args.message[1] \o "\""
        /\ doc.displayTimeUnit = "\"ms\""
        /\ envPath = Some(PathA) => doc.otherData.log_dir = <<"\"", "/", "d", "\"">>

\* Three begin/end pairs were recorded and the document holds their 6 records.
C7_Witness ==
    /\ phase = "exited"
    /\ outFile # <<>>
    /\ Len(outFile[1].traceEvents) = 6
    /\ log[1] = <<"scope", "scope", "scope">>

(***************************************************************************)
(* Thread and process identity (SpecTid)                                   *)
(***************************************************************************)
SharedNames == {a.name : a \in SharedArgs}

\* C11: every record carries the pid of the process and the tid of the thread
\* that constructed its Event, whichever thread called begin() or end(): the
\* records of a shared Event carry the tid of the main thread, which
\* constructed it; every [FileLock.hold] record carries the tid of the thread
\* that constructed the FileLockEvent; every [FileLock.acquire] record carries
\* the tid of the thread that called acquire().
C11_CreationTimeIdentity ==
    \A i \in 1..Len(events) :
        /\ events[i].pid = ToString(Pid)
        /\ events[i].name \in SharedNames => events[i].tid = ToString(1)
        /\ events[i].name = HoldName => events[i].tid = ToString(holdCreator)
        /\ events[i].name = AcquireName => events[i].tid = ToString(emitter[i])

\* begin() and end() of one Event were called from different threads, and a
\* thread other than the constructor of the FileLockEvent acquired the lock.
C11_Witness ==
    /\ \E i, j \in 1..Len(events) :
        /\ events[i].name \in SharedNames /\ events[j].name = events[i].name
        /\ events[i].ph = "B" /\ events[j].ph = "E"
        /\ emitter[i] # emitter[j]
    \/ \E i, j \in 1..Len(events) :
        /\ events[i].name = AcquireName /\ events[j].name = HoldName
        /\ emitter[i] = emitter[j]
        /\ emitter[j] # holdCreator
        /\ events[i].tid # events[j].tid

(***************************************************************************)
(* Scoped and decorator use of the FileLockEvent (SpecWith)                *)
(***************************************************************************)
LockFrames(t, pc) ==
    {i \in 1..Len(stack[t]) : stack[t][i].fn \in LockScopes /\ stack[t][i].pc = pc}

HoldRecords == {i \in 1..Len(events) : events[i].name = HoldName}

\* C12: with lock_event: body and lock_event(f)(...) run the body only after
\* acquire() has returned, and call release() after every body that ended or
\* raised; when the call is about to return or raise and the lock was not held
\* before it, the lock is not held and the last [FileLock.hold] record in the
\* buffer is an End record that closes every Begin.
C12_LockScopeBrackets ==
    \A t \in Threads :
        /\ \A i \in 1..Len(log[t]) :
               log[t][i] = "body" => i > 1 /\ log[t][i - 1] = "acquire"
        /\ Count(log[t], LAMBDA x : x = "body")
             = Count(log[t], LAMBDA x : x = "release") + Cardinality(LockFrames(t, "body"))
        /\ ( /\ stack[t] # <<>>
             /\ Top(t).fn \in LockScopes
             /\ Top(t).pc = "exit"
             /\ pend[t] = <<>>
             /\ ~Top(t).was )
           => /\ ~lockHeld
              /\ HoldRecords # {}
              /\ \A i \in HoldRecords : (\A j \in HoldRecords : j <= i) => events[i].ph = "E"
              /\ Count(Shape, LAMBDA x : x = HoldB) = Count(Shape, LAMBDA x : x = HoldE)

\* A decorated function whose body made a nested scoped use of the lock and
\* then raised is about to propagate the error; the lock was free before.
C12_Witness ==
    /\ Len(stack[1]) = 1
    /\ Top(1).fn = "wrapper"
    /\ Top(1).pc = "exit"
    /\ Top(1).exc
    /\ ~Top(1).was
    /\ pend[1] = <<>>
    /\ Count(log[1], LAMBDA x : x = "body") = 2
    /\ Count(Shape, LAMBDA x : x = HoldE) = 1

(***************************************************************************)
(* The decorator event() (SpecWrap, SpecDeco)                              *)
(***************************************************************************)
Wraps == {k \in 1..Len(trace) : trace[k].op = "wrap"}
Starts == {k \in 1..Len(trace) : trace[k].op = "start"}
Dones == {k \in 1..Len(trace) : trace[k].op = "done"}

\* C13: an application of event() to a value that is neither a str nor a
\* function raises ValueError in that very step: it returns no callable, the
\* set of callables is unchanged and no record is appended or built.
C13_InvalidApplicationFailsAtWrapTime ==
    [][ trace' # trace =>
          LET w == trace'[Len(trace')] IN
          (w.op = "wrap" /\ w.v.kind \notin {"str", "function"}) =>
              /\ w.err
              /\ w.made = {}
              /\ raising'[w.t]
              /\ log'[w.t] = Append(log[w.t], "ValueError")
              /\ callables' = callables
              /\ events' = events
              /\ pend' = pend ]_vars

\* event() was applied to a class and the ValueError reached the caller; an
\* application to a function returned the only callable there is.
C13_Witness ==
    /\ \E k \in Wraps : trace[k].v.kind = "class" /\ trace[k].err
    /\ \E k \in Wraps : trace[k].v.kind = "function" /\ ~trace[k].err
    /\ Count(log[1], LAMBDA x : x = "raised") = 1
    /\ Cardinality(callables) = 1
    /\ events = <<>>

\* C14: every call of a callable returned by either form of the decorator has
\* appended a Begin record (of the calling thread) when the original function
\* starts, passes it the arguments of the call, and when the call returns or
\* raises the End record of the same Event is the last record of the buffer,
\* a value returned by the function is returned and an error raised by it is
\* raised.
C14_DecoratedCallBracketsAndForwards ==
    /\ \A k \in Starts :
        LET s == trace[k] IN
        /\ s.len >= 1
        /\ events[s.len].ph = "B"
        /\ events[s.len].tid = ToString(s.t)
        /\ s.callee.form = "named" => events[s.len].name = s.callee.name
        /\ s.got = s.given
    /\ \A k \in Dones :
        LET d == trace[k] IN
        /\ events[d.len].ph = "E"
        /\ \E j \in 1..(k - 1) :
            /\ trace[j].op = "start"
            /\ trace[j].callee = d.callee
            /\ trace[j].len < d.len
            /\ events[trace[j].len].name = events[d.len].name
        /\ d.out = d.fout
    /\ \A t \in Threads :
        Count(log[t], LAMBDA x : x = "call")
          = Cardinality({k \in Starts : trace[k].t = t})
            + Cardinality({i \in 1..Len(stack[t]) : stack[t][i].pc = "call"})

\* A named-form callable called with an argument returned the value of its
\* function, and a direct-form callable propagated the error of its function.
C14_Witness ==
    /\ \E k \in Dones :
        /\ trace[k].callee.form = "named"
        /\ trace[k].out = Returns(Some("r"))
    /\ \E k \in Dones :
        /\ trace[k].callee.form = "direct"
        /\ trace[k].out = Raises
    /\ \E k \in Starts : trace[k].got = <<"x">>
    /\ Idle(1)

\* C15: the records of a call of a direct-form callable are named
\* <module>.<qualified name> when the function has a non-empty module name
\* and <qualified name> otherwise; Foo.bar of pkg.mod gives pkg.mod.Foo.bar.
C15_DirectFormEventName ==
    \A k \in Starts \cup Dones :
        LET c == trace[k].callee
            r == events[trace[k].len]
        IN c.form = "direct" =>
            /\ c.f.module \in {None, Some("")} => r.name = c.f.qualname
            /\ c.f.module \notin {None, Some("")} =>
                 r.name = c.f.module[1] \o "." \o c.f.qualname
            /\ (c.f.module = Some("pkg.mod") /\ c.f.qualname = "Foo.bar") =>
                 r.name = "pkg.mod.Foo.bar"

\* Foo.bar of pkg.mod and a function without module name were called through
\* their direct-form decorators and both calls ended.
C15_Witness ==
    /\ \E k \in Dones :
        /\ trace[k].callee.form = "direct"
        /\ trace[k].callee.f.module = Some("pkg.mod")
        /\ events[trace[k].len].name = "pkg.mod.Foo.bar"
    /\ \E k \in Dones :
        /\ trace[k].callee.form = "direct"
        /\ trace[k].callee.f.module \in {None, Some("")}
        /\ events[trace[k].len].name \in {"g", "h"}

(***************************************************************************)
(* Buffer order and timestamps (SpecClock)                                 *)
(***************************************************************************)
\* Positions i < j of the buffer whose timestamps are in the opposite order.
TsInversions ==
    {p \in (1..Len(events)) \X (1..Len(events)) :
        p[1] < p[2] /\ TsValue(events[p[1]].ts) > TsValue(events[p[2]].ts)}

\* C16: the buffer is in the order of the append steps: every step that
\* changes it puts the record some thread had built, whatever its timestamp,
\* after all records appended before. The order may differ from timestamp
\* order only between records of calls made by different threads.
C16_BufferOrderIsAppendOrder ==
    [][ /\ events' # events =>
            \E t \in Threads :
                /\ pend[t] # <<>>
                /\ pend'[t] = <<>>
                /\ events' = events \o <<pend[t][1]>>
                /\ emitter' = emitter \o <<t>>
        /\ \A p \in TsInversions : emitter[p[1]] # emitter[p[2]] ]_vars

\* Thread 1 read the clock first and appended last: its record, with the
\* earlier timestamp, follows the record of thread 2 in the buffer.
C16_Witness ==
    \E p \in TsInversions : emitter[p[1]] = 2 /\ emitter[p[2]] = 1

(***************************************************************************)
(* The balance of the hold records (SpecLock)                              *)
(***************************************************************************)
\* [FileLock.hold] Begin records minus [FileLock.hold] End records in the buffer.
HoldBalance == Count(Shape, LAMBDA x : x = HoldB) - Count(Shape, LAMBDA x : x = HoldE)

\* C17: for one FileLockEvent used by one thread, the number of hold Begin
\* records minus the number of hold End records in the buffer is never
\* negative and never greater than 1, and between calls it is 1 when the lock
\* is held and 0 when it is not.
C17_HoldBalanceFollowsLock ==
    /\ HoldBalance \in {0, 1}
    /\ Idle(1) => HoldBalance = (IF lockHeld THEN 1 ELSE 0)

\* After a release() of the unheld lock, a failed acquire(), an acquire() and
\* a reentrant acquire(), the lock is held twice and one hold span is open.
C17_Witness ==
    /\ Idle(1)
    /\ log[1] = <<"release", "acquire", "failed", "raised", "acquire", "acquire">>
    /\ lockHeld
    /\ lockCounter = 2
    /\ HoldBalance = 1

(***************************************************************************)
(* Two threads sharing the FileLockEvent (Spec)                            *)
(***************************************************************************)
\* The phases of the [FileLock.hold] records, in buffer order.
HoldPhases ==
    LET h == SelectSeq(Shape, LAMBDA x : x[1] = HoldName)
    IN [i \in 1..Len(h) |-> h[i][2]]

\* C18: when the threads share the FileLockEvent and call acquire() and
\* release() concurrently, the [FileLock.hold] records of the buffer
\* alternate Begin, End, Begin, End, starting with Begin.
C18_HoldRecordsAlternate ==
    \A i \in 1..Len(HoldPhases) :
        HoldPhases[i] = (IF i % 2 = 1 THEN "B" ELSE "E")

(***************************************************************************)
(* Nesting of scoped and decorated use (SpecNest)                          *)
(***************************************************************************)
\* The names and phases of the records thread t has appended, in buffer order.
ThreadShape(t) ==
    LET all == [i \in 1..Len(events) |-> <<events[i].name, events[i].ph, emitter[i]>>]
        own == SelectSeq(all, LAMBDA x : x[3] = t)
    IN [i \in 1..Len(own) |-> <<own[i][1], own[i][2]>>]

\* q is well-bracketed given the names open of the Begin records still open:
\* every End record closes the last of them and carries its name.
RECURSIVE Brackets(_, _)
Brackets(q, open) ==
    IF q = <<>> THEN TRUE
    ELSE IF Head(q)[2] = "B" THEN Brackets(Tail(q), Append(open, Head(q)[1]))
    ELSE /\ open # <<>>
         /\ open[Len(open)] = Head(q)[1]
         /\ Brackets(Tail(q), SubSeq(open, 1, Len(open) - 1))

\* C19: when Events are used only through the with statement and the event
\* decorators, at every point the records each thread has appended are
\* well-bracketed: every End record closes the most recent Begin record of the
\* thread that is still open and has its name, and none comes without one.
C19_ThreadRecordsWellBracketed ==
    \A t \in Threads : Brackets(ThreadShape(t), <<>>)

\* Thread 1 ran a scope in which a decorated function raised: the End record
\* of the function precedes the End record of the scope.
C19_Witness ==
    /\ Len(ThreadShape(1)) = 4
    /\ ThreadShape(1)[1][1] \in ScopeNames
    /\ ThreadShape(1)[2][1] \notin ScopeNames
    /\ ThreadShape(1)[3] = <<ThreadShape(1)[2][1], "E">>
    /\ ThreadShape(1)[4] = <<ThreadShape(1)[1][1], "E">>
    /\ Count(log[1], LAMBDA x : x = "raise") = 1

====
